---- MODULE Spec2Model ----
(***************************************************************************)
(* Logistic-regression trainers of algoritmo_menu.go: the full-batch and   *)
(* the minibatch sequential trainer, and the two parallel trainers         *)
(* (accumulate-then-apply with a shared gradients buffer, apply-per-batch  *)
(* with a mutex around the weight update).                                 *)
(*                                                                         *)
(* float64 values are modelled in fixed point: a value v stands for v/One. *)
(* Feature values are the integers 0 and 1 (the bias column is 1, a        *)
(* min-max normalised feature takes its extreme values 0 and 1).           *)
(* Indices are 0-based as in the Go code; TLA+ sequences are 1-based, so   *)
(* element j of a slice s is s[j + 1].                                     *)
(***************************************************************************)
EXTENDS Integers, Sequences, FiniteSets, TLC

\* ---------------------------------------------------------------- bounds
MaxN == 3
MaxIter == 2
MaxBatch == 3
MaxLoop == 2
MaxTasks == 2
\* longest sample sequence and largest trimCount passed to trimmedMean
MaxSamples == 4
MaxTrim == 2

\* Smallest (invalid) batch size tried: 0, -1 and -2 are the rejected inputs.
MinBatch == 0 - 2

\* The learning rates tried: 2.0 moves a weight by more than the fixed-point
\* resolution in one update; -2.0 is a non-positive rate (tried on
\* one-example datasets only).
LearningRates == {0 - 2, 2}

\* ------------------------------------------------------- fixed-point reals
One == 4

Abs(a) == IF a < 0 THEN 0 - a ELSE a

\* Integer division and remainder of Go: the quotient truncates toward zero
\* and the remainder has the sign of the dividend (b # 0).
GoDiv(a, b) ==
    LET q == Abs(a) \div Abs(b)
    IN  IF (a < 0) = (b < 0) THEN q ELSE 0 - q

GoMod(a, b) == a - b * GoDiv(a, b)

\* float64 quotient a / b for b # 0, rounded toward zero at the fixed-point
\* resolution.
FDiv(a, b) == GoDiv(a, b)

\* sigmoid(z) = 1 / (1 + exp(-z)) rounded to the nearest multiple of 1/One:
\* sigmoid(z) >= 7/8 iff z >= ln 7 (7.78/One), >= 5/8 iff z >= ln(5/3)
\* (2.04/One), and symmetrically below 1/2.
sigmoid(z) ==
    IF z >= 8 THEN 4
    ELSE IF z >= 3 THEN 3
    ELSE IF z >= 0 - 2 THEN 2
    ELSE IF z >= 0 - 7 THEN 1
    ELSE 0

RECURSIVE Dot(_, _, _)
Dot(x, w, n) == IF n = 0 THEN 0 ELSE Dot(x, w, n - 1) + x[n] * w[n]

predict(x, w) == sigmoid(Dot(x, w, Len(x)))

\* ------------------------------------------------------------------ state
VARIABLES
    trainer,       \* which trainer the call runs
    X, y,          \* feature matrix and label vector (read-only inputs)
    learningRate, iterations, batchSize,
    weights,       \* the weight vector of the call
    weightsNaN,    \* indices k whose weights[k] holds NaN (after 0/0)
    gradients,     \* per-epoch gradient accumulator
    iter,          \* epoch counter of the outer loop
    i,             \* counter of the batch loop (b, resp. i)
    nbatches,      \* `batches` of the accumulate trainer
    mainPc,        \* position of the calling goroutine
    wg,            \* counter of the epoch's sync.WaitGroup
    mutex,         \* 0 when unlocked, else the task holding it
    tasks,         \* the batches of the current epoch in launch order: the
                   \* goroutines of a parallel trainer, the finished loop
                   \* passes of the sequential minibatch trainer
    updates,       \* number of weight-vector updates applied so far
    callPc,        \* position of a call of trimmedMean, of calculateAccuracy
                   \* or of the benchmark branch of main ("idle": none)
    times,         \* the slice passed to trimmedMean
    samples,       \* its elements when the call was made
    trimCount,     \* its trimCount argument
    correct,       \* `correct` of calculateAccuracy
    ret,           \* the float64 a call returned: [nan, v]
    rep,           \* loop counter i of the benchmark
    timesSeq,      \* timing samples of the benchmark
    timesConc,
    progress,      \* what the benchmark last printed as [done/total]
    elapsed        \* the durations the clock will measure, in turn

\* the state outside the trainers
harness == <<callPc, times, samples, trimCount, correct, ret, rep, timesSeq, timesConc,
             progress, elapsed>>

vars == <<trainer, X, y, learningRate, iterations, batchSize, weights,
          weightsNaN, gradients, iter, i, nbatches, mainPc, wg, mutex,
          tasks, updates, harness>>

params == <<trainer, X, y, learningRate, iterations, batchSize>>

Trainers == {"seqFull", "seqMini", "accumulate", "applyPerBatch"}
Parallel == {"accumulate", "applyPerBatch"}
Minibatch == {"seqMini", "accumulate", "applyPerBatch"}

dataLen == Len(X)
features == Len(X[1])
Zeros == [k \in 1..features |-> 0]

\* Row j (1-based) of the datasets tried: bias 1 and an alternating feature.
Row(j) == <<1, j % 2>>

\* The label vectors tried for n examples: the label equals the feature, is
\* its opposite, or is 0 throughout.
Labels(n) ==
    {[j \in 1..n |-> j % 2], [j \in 1..n |-> 1 - (j % 2)], [j \in 1..n |-> 0]}

\* ---------------------------------------------------------------- helpers
\* error of example j (0-based) under weights w: predict(X[j], w) - y[j]
Error(j, w) == predict(X[j + 1], w) - y[j + 1] * One

\* the gradient loop over the examples [start, end): for every feature k the
\* sum of error_j * X[j][k]
RECURSIVE BatchGradient(_, _, _)
BatchGradient(w, start, end) ==
    IF start >= end THEN Zeros
    ELSE LET g == BatchGradient(w, start, end - 1)
         IN  [k \in 1..features |-> g[k] + Error(end - 1, w) * X[end][k]]

\* the update loop: w[k] -= learningRate * g[k] / n, for n # 0
\* the configured batch size taken as the divisor of every batch
BatchLenConfigured(start, end) == batchSize

\* float64(end-i), float64(end-start): the divisor of a batch's update
BatchLen(start, end) == end - start

ApplyUpdate(w, g, n) ==
    [k \in 1..features |-> w[k] - FDiv(learningRate * g[k], n)]

\* end := i + batchSize; if end > dataLen { end = dataLen }
BatchEnd(start) ==
    IF start + batchSize > dataLen THEN dataLen ELSE start + batchSize

\* a batch loop advancing by one example instead of one batch
NextStartByOne(start) == start + 1

\* i += batchSize
NextStart(start) == start + batchSize

\* a batch count that leaves the remainder of the division out
BatchCountFloor == GoDiv(dataLen, batchSize)

\* batches := len(X) / batchSize; if len(X) % batchSize != 0 { batches++ }
BatchCount ==
    GoDiv(dataLen, batchSize)
        + (IF GoMod(dataLen, batchSize) # 0 THEN 1 ELSE 0)

\* a goroutine record as `go func(...)` creates it
NewTask(pc, b, start, end) ==
    [pc |-> pc, batchIndex |-> b, start |-> start, end |-> end,
     j |-> start, k |-> 0, z |-> 0, tmp |-> 0, partialGradients |-> Zeros]

\* The batch loop of a minibatch trainer does not end when batchSize <= 0 (i
\* stays at 0, or decreases until the int wraps around after about
\* 2^63 / -batchSize passes); the model follows it for MaxLoop passes.
\* With batchSize >= 1 the loop is followed to its end.
LoopFollowed == batchSize >= 1 \/ Len(tasks) < MaxLoop

\* a float64 result: NaN, or the value v / One
Float(v) == [nan |-> FALSE, v |-> v]
NaN == [nan |-> TRUE, v |-> 0]

\* no call of the harness functions is in progress
HarnessIdle ==
    /\ callPc = "idle"
    /\ times = <<>>
    /\ samples = <<>>
    /\ trimCount = 0
    /\ correct = 0
    /\ ret = Float(0)
    /\ rep = 0
    /\ timesSeq = <<>>
    /\ timesConc = <<>>
    /\ progress = 0
    /\ elapsed = <<>>

TaskIds == 1..Len(tasks)
AllTasksDone == \A t \in TaskIds : tasks[t].pc = "done"

\* ------------------------------------------------------------------- Init
Init ==
    /\ trainer \in Trainers
    /\ \E n \in 1..MaxN :
          /\ X = [j \in 1..n |-> Row(j)]
          /\ y \in Labels(n)
    /\ learningRate \in LearningRates
    /\ learningRate <= 0 => dataLen = 1
    /\ iterations \in 0..MaxIter
    /\ IF trainer = "seqFull" THEN batchSize = 1
       ELSE batchSize \in MinBatch..MaxBatch
    /\ (trainer \in Parallel /\ batchSize >= 1) => BatchCount <= MaxTasks
    /\ weights = Zeros
    /\ weightsNaN = {}
    /\ gradients = Zeros
    /\ iter = 0
    /\ i = 0
    /\ nbatches = 0
    /\ mainPc = "iter"
    /\ wg = 0
    /\ mutex = 0
    /\ tasks = <<>>
    /\ updates = 0
    /\ HarnessIdle

\* ------------------------------------------- trainSequential (full batch)
SeqFullEpoch ==
    /\ trainer = "seqFull"
    /\ mainPc = "iter"
    /\ iter < iterations
    /\ gradients' = BatchGradient(weights, 0, dataLen)
    /\ weights' = ApplyUpdate(weights, gradients', dataLen)
    /\ iter' = iter + 1
    /\ updates' = updates + 1
    /\ UNCHANGED <<harness, params, weightsNaN, i, nbatches, mainPc, wg, mutex, tasks>>

\* `return weights` once the epoch loop ends (every trainer)
Return ==
    /\ mainPc = "iter"
    /\ iter >= iterations
    /\ mainPc' = "done"
    /\ UNCHANGED <<harness, params, weights, weightsNaN, gradients, iter, i, nbatches,
                   wg, mutex, tasks, updates>>

\* -------------------------------------------- trainSequential (minibatch)
SeqMiniEpochStart ==
    /\ trainer = "seqMini"
    /\ mainPc = "iter"
    /\ iter < iterations
    /\ i' = 0
    /\ tasks' = <<>>
    /\ mainPc' = "batch"
    /\ UNCHANGED <<harness, params, weights, weightsNaN, gradients, iter, nbatches, wg,
                   mutex, updates>>

\* one pass of the batch loop body: gradient of [i, end), then the update
\* the weights of the call's start taken for every batch
StartWeights == Zeros

\* pred := predict(X[j], weights): the weight vector as it is when the
\* batch is reached
CurrentWeights == weights

SeqMiniBatch ==
    /\ trainer = "seqMini"
    /\ mainPc = "batch"
    /\ LoopFollowed
    /\ LET end == BatchEnd(i)
           g == BatchGradient(CurrentWeights, i, end)
       IN  /\ gradients' = g
           /\ IF BatchLen(i, end) = 0
              THEN /\ weightsNaN' = 1..features
                   /\ weights' = weights
              ELSE /\ weights' = ApplyUpdate(weights, g, BatchLen(i, end))
                   /\ weightsNaN' = weightsNaN
           /\ tasks' = Append(tasks,
                 [NewTask("done", Len(tasks), i, end)
                     EXCEPT !.partialGradients = g])
    /\ updates' = updates + 1
    /\ i' = NextStart(i)
    /\ IF i' < dataLen
       THEN /\ mainPc' = "batch"
            /\ iter' = iter
       ELSE /\ mainPc' = "iter"
            /\ iter' = iter + 1
    /\ UNCHANGED <<harness, params, nbatches, wg, mutex>>

\* --------------------------------------------------- parallel trainers
\* a Wait that does not block
WaitReturnsAtOnce == TRUE

\* wg.Wait() returns when the WaitGroup counter is zero
WaitReturns == wg = 0

\* a Lock that does not exclude
LockAlwaysFree == TRUE

\* mutex.Lock() returns when no task holds the mutex
LockFree == mutex = 0

\* top of the epoch loop of trainConcurrent (accumulate-then-apply): fresh
\* gradients and WaitGroup, then the batch count; the division panics on
\* batchSize = 0
AccEpochStart ==
    /\ trainer = "accumulate"
    /\ mainPc = "iter"
    /\ iter < iterations
    /\ gradients' = Zeros
    /\ wg' = 0
    /\ tasks' = <<>>
    /\ i' = 0
    /\ IF batchSize = 0
       THEN /\ mainPc' = "panic"
            /\ nbatches' = nbatches
       ELSE /\ nbatches' = BatchCount
            /\ mainPc' = IF 0 < nbatches' THEN "launch" ELSE "wait"
    /\ UNCHANGED <<harness, params, weights, weightsNaN, iter, mutex, updates>>

\* wg.Add(1); go func(batchIndex int) {...}(b); b++
AccLaunch ==
    /\ trainer = "accumulate"
    /\ mainPc = "launch"
    /\ wg' = wg + 1
    /\ tasks' = Append(tasks, NewTask("compute", i, 0, 0))
    /\ i' = i + 1
    /\ mainPc' = IF i' < nbatches THEN "launch" ELSE "wait"
    /\ UNCHANGED <<harness, params, weights, weightsNaN, gradients, iter, nbatches,
                   mutex, updates>>

\* the task computes its range and its private partialGradients
AccCompute(t) ==
    /\ tasks[t].pc = "compute"
    /\ LET start == tasks[t].batchIndex * batchSize
           end == BatchEnd(start)
       IN  tasks' = [tasks EXCEPT ![t] =
              [@ EXCEPT !.start = start, !.end = end, !.j = end, !.k = 0,
                        !.partialGradients = BatchGradient(weights, start, end),
                        !.pc = "load"]]
    /\ UNCHANGED <<harness, params, weights, weightsNaN, gradients, iter, i, nbatches,
                   mainPc, wg, mutex, updates>>

\* gradients[j] += partialGradients[j] is an unsynchronised read-modify-write
\* of shared memory: the read ...
AccLoad(t) ==
    /\ tasks[t].pc = "load"
    /\ tasks' = [tasks EXCEPT ![t] =
          [@ EXCEPT !.tmp = gradients[tasks[t].k + 1], !.pc = "store"]]
    /\ UNCHANGED <<harness, params, weights, weightsNaN, gradients, iter, i, nbatches,
                   mainPc, wg, mutex, updates>>

\* a task that applies its partial gradient to the weights itself
AccStoreToWeights(t) ==
    /\ tasks[t].pc = "store"
    /\ LET k == tasks[t].k + 1
       IN  /\ weights' = [weights EXCEPT
                  ![k] = @ - FDiv(learningRate * tasks[t].partialGradients[k],
                                  dataLen)]
           /\ tasks' = [tasks EXCEPT ![t] =
                 [@ EXCEPT !.k = k, !.tmp = 0,
                           !.pc = IF k < features THEN "load" ELSE "wgdone"]]
    /\ UNCHANGED <<harness, params, gradients, weightsNaN, iter, i, nbatches, mainPc,
                   wg, mutex, updates>>

\* ... and the write of the sum
AccStore(t) ==
    /\ tasks[t].pc = "store"
    /\ LET k == tasks[t].k + 1
       IN  /\ gradients' = [gradients EXCEPT
                  ![k] = tasks[t].tmp + tasks[t].partialGradients[k]]
           /\ tasks' = [tasks EXCEPT ![t] =
                 [@ EXCEPT !.k = k, !.tmp = 0,
                           !.pc = IF k < features THEN "load" ELSE "wgdone"]]
    /\ UNCHANGED <<harness, params, weights, weightsNaN, iter, i, nbatches, mainPc, wg,
                   mutex, updates>>

\* defer wg.Done()
TaskDone(t) ==
    /\ tasks[t].pc = "wgdone"
    /\ wg' = wg - 1
    /\ tasks' = [tasks EXCEPT ![t] = [@ EXCEPT !.pc = "done"]]
    /\ UNCHANGED <<harness, params, weights, weightsNaN, gradients, iter, i, nbatches,
                   mainPc, mutex, updates>>

\* wg.Wait()
Wait ==
    /\ trainer \in Parallel
    /\ mainPc = "wait"
    /\ WaitReturns
    /\ IF trainer = "accumulate"
       THEN /\ mainPc' = "update"
            /\ iter' = iter
       ELSE /\ mainPc' = "iter"
            /\ iter' = iter + 1
    /\ UNCHANGED <<harness, params, weights, weightsNaN, gradients, i, nbatches, wg,
                   mutex, tasks, updates>>

\* the single update of the epoch, from the accumulated gradients
AccUpdate ==
    /\ trainer = "accumulate"
    /\ mainPc = "update"
    /\ weights' = ApplyUpdate(weights, gradients, dataLen)
    /\ updates' = updates + 1
    /\ iter' = iter + 1
    /\ mainPc' = "iter"
    /\ UNCHANGED <<harness, params, weightsNaN, gradients, i, nbatches, wg, mutex,
                   tasks>>

\* top of the epoch loop of trainConcurrent (apply-per-batch): fresh
\* WaitGroup and mutex, i := 0
ApbEpochStart ==
    /\ trainer = "applyPerBatch"
    /\ mainPc = "iter"
    /\ iter < iterations
    /\ wg' = 0
    /\ mutex' = 0
    /\ tasks' = <<>>
    /\ i' = 0
    /\ mainPc' = "launch"
    /\ UNCHANGED <<harness, params, weights, weightsNaN, gradients, iter, nbatches,
                   updates>>

\* wg.Add(1); start, end := ...; go func(start, end int) {...}; i += batchSize
ApbLaunch ==
    /\ trainer = "applyPerBatch"
    /\ mainPc = "launch"
    /\ LoopFollowed
    /\ wg' = wg + 1
    /\ LET end == BatchEnd(i)
       IN  tasks' = Append(tasks,
              NewTask(IF i < end THEN "read" ELSE "lock", Len(tasks), i, end))
    /\ i' = NextStart(i)
    /\ mainPc' = IF i' < dataLen THEN "launch" ELSE "wait"
    /\ UNCHANGED <<harness, params, weights, weightsNaN, gradients, iter, nbatches,
                   mutex, updates>>

\* predict(X[j], weights) reads weights[k] without the mutex, one component
\* at a time; after the last component the error of example j is added to
\* partialGradients
ApbRead(t) ==
    /\ tasks[t].pc = "read"
    /\ LET j == tasks[t].j
           k == tasks[t].k + 1
           z == tasks[t].z + X[j + 1][k] * weights[k]
           err == sigmoid(z) - y[j + 1] * One
       IN  tasks' = [tasks EXCEPT ![t] =
              IF k < features
              THEN [@ EXCEPT !.k = k, !.z = z]
              ELSE [@ EXCEPT !.k = 0, !.z = 0, !.j = j + 1,
                      !.partialGradients =
                          [f \in 1..features |-> @[f] + err * X[j + 1][f]],
                      !.pc = IF j + 1 < tasks[t].end THEN "read" ELSE "lock"]]
    /\ UNCHANGED <<harness, params, weights, weightsNaN, gradients, iter, i, nbatches,
                   mainPc, wg, mutex, updates>>

\* mutex.Lock()
\* a task that takes the mutex and releases it without the update loop
ApbLockSkipsUpdate(t) ==
    /\ tasks[t].pc = "lock"
    /\ LockFree
    /\ mutex' = t
    /\ tasks' = [tasks EXCEPT ![t] = [@ EXCEPT !.pc = "unlock", !.k = 0]]
    /\ UNCHANGED <<harness, params, weights, weightsNaN, gradients, iter, i, nbatches,
                   mainPc, wg, updates>>

ApbLock(t) ==
    /\ tasks[t].pc = "lock"
    /\ LockFree
    /\ mutex' = t
    /\ tasks' = [tasks EXCEPT ![t] = [@ EXCEPT !.pc = "update", !.k = 0]]
    /\ UNCHANGED <<harness, params, weights, weightsNaN, gradients, iter, i, nbatches,
                   mainPc, wg, updates>>

\* an update that assigns the step instead of subtracting it (= for -=)
ApbUpdateAssign(t) ==
    /\ tasks[t].pc = "update"
    /\ LET k == tasks[t].k + 1
           n == tasks[t].end - tasks[t].start
       IN  /\ IF n = 0
              THEN /\ weightsNaN' = weightsNaN \cup {k}
                   /\ weights' = weights
              ELSE /\ weights' = [weights EXCEPT ![k] =
                          0 - FDiv(learningRate * tasks[t].partialGradients[k], n)]
                   /\ weightsNaN' = weightsNaN
           /\ tasks' = [tasks EXCEPT ![t] =
                 [@ EXCEPT !.k = k,
                           !.pc = IF k < features THEN "update" ELSE "unlock"]]
           /\ updates' = IF k < features THEN updates ELSE updates + 1
    /\ UNCHANGED <<harness, params, gradients, iter, i, nbatches, mainPc, wg,
                   mutex>>

\* weights[k] -= learningRate * partialGradients[k] / float64(end-start);
\* 0/0 is NaN (an empty range has a zero gradient)
ApbUpdate(t) ==
    /\ tasks[t].pc = "update"
    /\ LET k == tasks[t].k + 1
           n == BatchLen(tasks[t].start, tasks[t].end)
       IN  /\ IF n = 0
              THEN /\ weightsNaN' = weightsNaN \cup {k}
                   /\ weights' = weights
              ELSE /\ weights' = [weights EXCEPT ![k] =
                          @ - FDiv(learningRate * tasks[t].partialGradients[k], n)]
                   /\ weightsNaN' = weightsNaN
           /\ tasks' = [tasks EXCEPT ![t] =
                 [@ EXCEPT !.k = k,
                           !.pc = IF k < features THEN "update" ELSE "unlock"]]
           /\ updates' = IF k < features THEN updates ELSE updates + 1
    /\ UNCHANGED <<harness, params, gradients, iter, i, nbatches, mainPc, wg, mutex>>

\* a task that returns without releasing the mutex
ApbNoUnlock(t) ==
    /\ tasks[t].pc = "unlock"
    /\ tasks' = [tasks EXCEPT ![t] = [@ EXCEPT !.pc = "wgdone"]]
    /\ UNCHANGED <<harness, params, weights, weightsNaN, gradients, iter, i, nbatches,
                   mainPc, wg, mutex, updates>>

\* mutex.Unlock()
ApbUnlock(t) ==
    /\ tasks[t].pc = "unlock"
    /\ mutex' = 0
    /\ tasks' = [tasks EXCEPT ![t] = [@ EXCEPT !.pc = "wgdone"]]
    /\ UNCHANGED <<harness, params, weights, weightsNaN, gradients, iter, i, nbatches,
                   mainPc, wg, updates>>

\* ------------------------------------------------------------------- Next
\* a further call that goes on with the weight vector of the call before
InvokeOnOldWeights ==
    /\ mainPc = "done"
    /\ mainPc' = "iter"
    /\ gradients' = Zeros
    /\ iter' = 0
    /\ i' = 0
    /\ nbatches' = 0
    /\ tasks' = <<>>
    /\ updates' = 0
    /\ UNCHANGED <<harness, params, weights, weightsNaN, wg, mutex>>

\* the caller invokes the trainer again on the same arguments (a further
\* menu choice, the next benchmark repetition): the call allocates its
\* locals anew, weights := make([]float64, len(X[0]))
Invoke ==
    /\ mainPc = "done"
    /\ mainPc' = "iter"
    /\ weights' = Zeros
    /\ weightsNaN' = {}
    /\ gradients' = Zeros
    /\ iter' = 0
    /\ i' = 0
    /\ nbatches' = 0
    /\ tasks' = <<>>
    /\ updates' = 0
    /\ UNCHANGED <<harness, params, wg, mutex>>

Next ==
    \/ SeqFullEpoch
    \/ Return
    \/ Invoke
    \/ SeqMiniEpochStart
    \/ SeqMiniBatch
    \/ AccEpochStart
    \/ AccLaunch
    \/ Wait
    \/ AccUpdate
    \/ ApbEpochStart
    \/ ApbLaunch
    \/ \E t \in TaskIds : AccCompute(t)
    \/ \E t \in TaskIds : AccLoad(t)
    \/ \E t \in TaskIds : AccStore(t)
    \/ \E t \in TaskIds : TaskDone(t)
    \/ \E t \in TaskIds : ApbRead(t)
    \/ \E t \in TaskIds : ApbLock(t)
    \/ \E t \in TaskIds : ApbUpdate(t)
    \/ \E t \in TaskIds : ApbUnlock(t)

Spec == Init /\ [][Next]_vars

\* Weak fairness of the scheduler: a goroutine that can run eventually runs.
FairSpec == Spec /\ WF_vars(Next)

\* ------------------------------------------------- reference computations
\* trainSequential (full batch) as a function: the weights after n epochs
RECURSIVE SeqFullWeights(_)
SeqFullWeights(n) ==
    IF n = 0 THEN Zeros
    ELSE LET w == SeqFullWeights(n - 1)
         IN  ApplyUpdate(w, BatchGradient(w, 0, dataLen), dataLen)

\* gradients of one epoch of the accumulate trainer when its first nb tasks
\* run one after the other, each to completion, in launch order
RECURSIVE AccSerialGradient(_, _)
AccSerialGradient(w, nb) ==
    IF nb <= 0 THEN Zeros
    ELSE LET g == AccSerialGradient(w, nb - 1)
             start == (nb - 1) * batchSize
             p == BatchGradient(w, start, BatchEnd(start))
         IN  [k \in 1..features |-> g[k] + p[k]]

\* the weights the accumulate trainer returns after n epochs of that schedule
RECURSIVE AccSerialWeights(_)
AccSerialWeights(n) ==
    IF n = 0 THEN Zeros
    ELSE LET w == AccSerialWeights(n - 1)
         IN  ApplyUpdate(w, AccSerialGradient(w, BatchCount), dataLen)

\* the batch loop of trainSequential (minibatch) as a function, for
\* batchSize >= 1: the weights when the loop counter, started at `from` with
\* weights w, first reaches `to` or more
RECURSIVE SeqMiniRun(_, _, _)
SeqMiniRun(w, from, to) ==
    IF from >= to THEN w
    ELSE LET end == BatchEnd(from)
         IN  SeqMiniRun(ApplyUpdate(w, BatchGradient(w, from, end), end - from),
                        NextStart(from), to)

\* the weights trainSequential (minibatch) returns after n epochs
RECURSIVE SeqMiniWeights(_)
SeqMiniWeights(n) ==
    IF n = 0 THEN Zeros ELSE SeqMiniRun(SeqMiniWeights(n - 1), 0, dataLen)

\* sum over the first n tasks of partialGradients[k]
RECURSIVE PartialSum(_, _)
PartialSum(n, k) ==
    IF n = 0 THEN 0 ELSE PartialSum(n - 1, k) + tasks[n].partialGradients[k]

CeilDiv(a, b) == (a + b - 1) \div b

\* ---------------------------------------------------------------- claims

\* C1: in both parallel trainers the epoch loop is back at its head (about
\* to launch the next epoch or to return the weights), or at the
\* post-barrier update, only when every task launched in the epoch has
\* finished and the WaitGroup counter is back to zero.
C1_BarrierBetweenEpochs ==
    (trainer \in Parallel /\ mainPc \in {"iter", "update", "done"})
        => (AllTasksDone /\ wg = 0)

\* the barrier of a first epoch with two tasks is passed, a second epoch
\* is about to start
C1_Witness ==
    /\ trainer \in Parallel
    /\ mainPc = "iter"
    /\ iter = 1
    /\ iter < iterations
    /\ Len(tasks) = 2
    /\ AllTasksDone

\* C2: in the apply-per-batch trainer at most one task is between
\* mutex.Lock() and mutex.Unlock(), where weights[k] is written.
C2_OneWriter ==
    trainer = "applyPerBatch"
        => Cardinality({t \in TaskIds : tasks[t].pc \in {"update", "unlock"}}) <= 1

\* one task is writing the weights while another waits for the mutex
C2_Witness ==
    /\ trainer = "applyPerBatch"
    /\ \E t, u \in TaskIds :
          /\ tasks[t].pc = "update"
          /\ tasks[t].k = 1
          /\ tasks[u].pc = "lock"

\* C3: for batchSize >= 1 the accumulate-then-apply trainer returns the
\* weights of the full-batch sequential trainer.
C3_EqualsSequential ==
    (trainer = "accumulate" /\ batchSize >= 1 /\ mainPc = "done")
        => weights = SeqFullWeights(iterations)

\* C4: past the barrier of an epoch of the accumulate trainer, gradients[k]
\* is the sum of the partialGradients[k] of the epoch's tasks.
C4_NoLostGradient ==
    (trainer = "accumulate" /\ mainPc = "update")
        => \A k \in 1..features : gradients[k] = PartialSum(Len(tasks), k)

\* C5: the accumulate trainer is deterministic: every run returns the
\* weights of the run whose tasks execute one after the other in launch
\* order (so any two runs on the same input return the same weights).
C5_Deterministic ==
    (trainer = "accumulate" /\ batchSize >= 1 /\ mainPc = "done")
        => weights = AccSerialWeights(iterations)

\* C6: during a call of the accumulate trainer the weights change only in the update
\* after the barrier, when every task of the epoch has finished (no task
\* writes them, every task reads the weights of the epoch's start), and the
\* number of updates equals the number of completed epochs: `iterations`
\* when the weights are returned.
C6_SingleUpdatePerEpoch ==
    /\ [](trainer = "accumulate"
            => /\ updates = iter
               /\ (mainPc = "done" => updates = iterations))
    /\ [][(trainer = "accumulate" /\ mainPc # "done" /\ weights' # weights)
            => (mainPc = "update" /\ AllTasksDone /\ updates' = updates + 1)]_vars

\* the second update of a run with two tasks per epoch has been applied
C6_Witness ==
    /\ trainer = "accumulate"
    /\ mainPc = "done"
    /\ updates = 2
    /\ Len(tasks) = 2
    /\ weights # Zeros

\* the batch loop of the current epoch has ended and every range is known
EpochLaunched ==
    /\ \/ mainPc \in {"wait", "update"}
       \/ (mainPc \in {"iter", "done"} /\ iter > 0)
    /\ \A t \in TaskIds : tasks[t].pc # "compute"

\* C7: for batchSize >= 1 the ranges [start, end) of an epoch are non-empty
\* and contiguous from 0 (hence pairwise disjoint); once the batch loop has
\* ended they cover [0, dataLen), there are ceil(dataLen / batchSize) of
\* them, all of size batchSize but the last, whose size is
\* dataLen mod batchSize (batchSize when that is 0); with
\* dataLen < batchSize there is the single batch [0, dataLen).
C7_BatchRanges ==
    (trainer \in Minibatch /\ batchSize >= 1) =>
        /\ \A t \in TaskIds :
              tasks[t].pc # "compute" =>
                 /\ 0 <= tasks[t].start
                 /\ tasks[t].start < tasks[t].end
                 /\ tasks[t].end <= dataLen
                 /\ (t = 1 => tasks[t].start = 0)
                 /\ (t > 1 /\ tasks[t - 1].pc # "compute")
                        => tasks[t].start = tasks[t - 1].end
        /\ EpochLaunched =>
              /\ Len(tasks) = CeilDiv(dataLen, batchSize)
              /\ tasks[Len(tasks)].end = dataLen
              /\ \A t \in 1..(Len(tasks) - 1) :
                    tasks[t].end - tasks[t].start = batchSize
              /\ tasks[Len(tasks)].end - tasks[Len(tasks)].start =
                    (IF dataLen % batchSize = 0 THEN batchSize
                     ELSE dataLen % batchSize)
              /\ (dataLen < batchSize =>
                    (Len(tasks) = 1 /\ tasks[1].start = 0
                        /\ tasks[1].end = dataLen))

\* three examples in batches of two: [0, 2) and the partial batch [2, 3)
C7_Witness ==
    /\ trainer \in Minibatch
    /\ dataLen = 3
    /\ batchSize = 2
    /\ EpochLaunched
    /\ Len(tasks) = 2
    /\ tasks[2].start = 2
    /\ tasks[2].end = 3

\* C8: a parallel trainer called with batchSize <= 0 launches no task,
\* leaves the weights untouched and does not return a weight vector.
C8_RejectsBadBatchSize ==
    (trainer \in Parallel /\ batchSize <= 0)
        => /\ tasks = <<>>
           /\ weights = Zeros
           /\ weightsNaN = {}
           /\ mainPc # "done"

\* C9: under fair scheduling, with a non-empty dataset, batchSize >= 1 and
\* iterations >= 0, every trainer returns its weights after exactly
\* `iterations` epochs, with every task finished, the mutex released and
\* the WaitGroup counter at zero.
C9_Terminates ==
    (batchSize >= 1) ~>
        (/\ mainPc = "done"
         /\ iter = iterations
         /\ AllTasksDone
         /\ mutex = 0
         /\ wg = 0)

\* a two-epoch run of the apply-per-batch trainer with two tasks per epoch
\* has returned
C9_Witness ==
    /\ trainer = "applyPerBatch"
    /\ batchSize >= 1
    /\ mainPc = "done"
    /\ iter = 2
    /\ Len(tasks) = 2
    /\ updates = 4

\* C10: in the apply-per-batch trainer no task reads a component of the
\* weights (a step of predict) while another task is inside the locked
\* update.
C10_NoReadDuringUpdate ==
    [][\A t \in TaskIds :
          (tasks[t].pc = "read" /\ tasks'[t] # tasks[t])
              => \A u \in TaskIds : tasks[u].pc # "update"]_vars

\* C11: the apply-per-batch trainer does not guarantee the result of the
\* sequential minibatch trainer (C11_Witness is a run with two batches that
\* returns other weights), and the difference comes from the read order
\* only: after a first epoch in which every task computed its gradient on
\* the weights the sequential trainer has when it reaches that batch, the
\* weights are those of the sequential trainer.
C11_DiffersOnlyByReadOrder ==
    (/\ trainer = "applyPerBatch"
     /\ batchSize >= 1
     /\ iter = 1
     /\ mainPc \in {"iter", "done"}
     /\ \A t \in TaskIds :
           tasks[t].partialGradients =
              BatchGradient(SeqMiniRun(Zeros, 0, tasks[t].start),
                            tasks[t].start, tasks[t].end))
        => weights = SeqMiniWeights(1)

\* a run of the apply-per-batch trainer with two batches has returned
\* weights that differ from those of trainSequential on the same input
C11_Witness ==
    /\ trainer = "applyPerBatch"
    /\ batchSize >= 1
    /\ mainPc = "done"
    /\ Len(tasks) >= 2
    /\ weights # SeqMiniWeights(iterations)

\* the size of the batch that starts at index start, for batchSize >= 1:
\* batchSize, or what is left of the dataset for the final partial batch
OwnSize(start) ==
    IF start + batchSize > dataLen THEN dataLen - start ELSE batchSize

\* C12: in the minibatch sequential trainer and in the apply-per-batch
\* trainer every weight update subtracts learningRate * (summed gradient of
\* the batch) divided by the batch's own size, which for the final partial
\* batch is its shorter size and not batchSize or the dataset size.
C12_DividesByOwnSize ==
    [][(/\ trainer \in {"seqMini", "applyPerBatch"}
        /\ batchSize >= 1
        /\ mainPc # "done"
        /\ weights' # weights) =>
         IF trainer = "seqMini"
         THEN weights' = [k \in 1..features |->
                 weights[k] - FDiv(learningRate
                    * BatchGradient(weights, i, i + OwnSize(i))[k], OwnSize(i))]
         ELSE \E t \in TaskIds :
                 /\ tasks[t].pc = "update"
                 /\ tasks'[t].k = tasks[t].k + 1
                 /\ weights' = [weights EXCEPT ![tasks'[t].k] =
                       @ - FDiv(learningRate
                              * tasks[t].partialGradients[tasks'[t].k],
                            OwnSize(tasks[t].start))]]_vars

\* the update of a final partial batch (shorter than batchSize, with a
\* nonzero gradient) has been applied by a minibatch trainer
C12_Witness ==
    /\ trainer \in {"seqMini", "applyPerBatch"}
    /\ batchSize >= 2
    /\ \E t \in TaskIds :
          /\ tasks[t].pc \in {"unlock", "done"}
          /\ tasks[t].end - tasks[t].start < batchSize
          /\ tasks[t].end = dataLen
          /\ \E k \in 1..features : tasks[t].partialGradients[k] # 0

\* ---------------------------------------------------------------------
\* trimmedMean(times, trimCount)

\* the trainer variables while no trainer is being followed
TrainerIdle ==
    /\ trainer = "seqMini"
    /\ X = <<>>
    /\ y = <<>>
    /\ learningRate = 0
    /\ iterations = 0
    /\ batchSize = 0
    /\ weights = <<>>
    /\ weightsNaN = {}
    /\ gradients = <<>>
    /\ iter = 0
    /\ i = 0
    /\ nbatches = 0
    /\ mainPc = "idle"
    /\ wg = 0
    /\ mutex = 0
    /\ tasks = <<>>
    /\ updates = 0

trainerVars == <<trainer, X, y, learningRate, iterations, batchSize, weights,
                 weightsNaN, gradients, iter, i, nbatches, mainPc, wg, mutex,
                 tasks, updates>>

\* durations in seconds (fixed point)
SampleValues == {One, 2 * One, 3 * One}

\* the samples 1, 2, ..., 10
OneToTen == [j \in 1..10 |-> j * One]

SampleSeqs ==
    UNION {[1..n -> SampleValues] : n \in 0..MaxSamples} \cup {OneToTen}

\* a sort that leaves the slice as it is
Unsorted(s) == s

\* sort.Float64s: the elements of s in ascending order; the element at
\* position k is the value v with fewer than k elements below it and at
\* least k elements not above it
SortFloat64s(s) ==
    LET values == {s[j] : j \in 1..Len(s)}
        below(v) == Cardinality({j \in 1..Len(s) : s[j] < v})
        upTo(v) == Cardinality({j \in 1..Len(s) : s[j] <= v})
    IN  [k \in 1..Len(s) |->
            CHOOSE v \in values : below(v) < k /\ k <= upTo(v)]

\* for _, t := range trimmed { sum += t }: the sum of the elements, added
\* by halves (fixed-point addition does not depend on the order)
RECURSIVE SumSeq(_)
SumSeq(s) ==
    IF s = <<>> THEN 0
    ELSE IF Len(s) = 1 THEN s[1]
    ELSE LET h == Len(s) \div 2
         IN  SumSeq(SubSeq(s, 1, h)) + SumSeq(SubSeq(s, h + 1, Len(s)))

\* a check that lets len(times) = 2*trimCount through
TooFewStrict(n, t) == n < 2 * t

\* len(times) <= 2*trimCount
TooFew(n, t) == n <= 2 * t

InitTrimmedMean ==
    /\ TrainerIdle
    /\ callPc = "check"
    /\ times \in SampleSeqs
    /\ samples = times
    /\ trimCount \in 0..MaxTrim
    /\ correct = 0
    /\ ret = Float(0)
    /\ rep = 0
    /\ timesSeq = <<>>
    /\ timesConc = <<>>
    /\ progress = 0
    /\ elapsed = <<>>

\* if len(times) <= 2*trimCount { panic(...) }
TmCheck ==
    /\ callPc = "check"
    /\ callPc' = IF TooFew(Len(times), trimCount) THEN "panic" ELSE "sort"
    /\ UNCHANGED <<trainerVars, times, samples, trimCount, correct, ret, rep,
                   timesSeq, timesConc, progress,
                   elapsed>>

\* sort.Float64s(times): sorts the caller's slice in place
TmSort ==
    /\ callPc = "sort"
    /\ times' = SortFloat64s(times)
    /\ callPc' = "sum"
    /\ UNCHANGED <<trainerVars, samples, trimCount, correct, ret, rep,
                   timesSeq, timesConc, progress,
                   elapsed>>

\* trimmed := times[trimCount : len(times)-trimCount]; the sum of trimmed
\* divided by float64(len(trimmed)), 0/0 being NaN
TmReturn ==
    /\ callPc = "sum"
    /\ LET trimmed == SubSeq(times, trimCount + 1, Len(times) - trimCount)
       IN  ret' = IF Len(trimmed) = 0 THEN NaN
                  ELSE Float(FDiv(SumSeq(trimmed), Len(trimmed)))
    /\ callPc' = "return"
    /\ UNCHANGED <<trainerVars, times, samples, trimCount, correct, rep,
                   timesSeq, timesConc, progress,
                   elapsed>>

NextTrimmedMean == TmCheck \/ TmSort \/ TmReturn

SpecTrimmedMean == InitTrimmedMean /\ [][NextTrimmedMean]_vars

\* C13: a call of trimmedMean with len(times) <= 2*trimCount panics at the
\* check: it has not sorted (times is as the caller passed it) and returns
\* no value; a call with len(times) > 2*trimCount does not panic.
C13_PanicsIffTooFew ==
    (callPc # "check") =>
       /\ (callPc = "panic") <=> (Len(samples) <= 2 * trimCount)
       /\ (callPc = "panic") => (times = samples /\ ret = Float(0))

\* a call with exactly 2*trimCount > 0 unsorted samples has panicked
C13_Witness ==
    /\ callPc = "panic"
    /\ trimCount > 0
    /\ Len(samples) = 2 * trimCount
    /\ samples # SortFloat64s(samples)

\* the least and the greatest element of a non-empty sequence
RECURSIVE MinOf(_)
MinOf(s) ==
    IF Len(s) = 1 THEN s[1]
    ELSE IF Head(s) <= MinOf(Tail(s)) THEN Head(s) ELSE MinOf(Tail(s))

RECURSIVE MaxOf(_)
MaxOf(s) ==
    IF Len(s) = 1 THEN s[1]
    ELSE IF Head(s) >= MaxOf(Tail(s)) THEN Head(s) ELSE MaxOf(Tail(s))

\* s without the first occurrence of v
RECURSIVE DropOne(_, _)
DropOne(s, v) ==
    IF s = <<>> THEN <<>>
    ELSE IF Head(s) = v THEN Tail(s)
    ELSE <<Head(s)>> \o DropOne(Tail(s), v)

\* the sum of what is left of s after taking away, t times, its least and
\* then its greatest element
RECURSIVE TrimmedSum(_, _)
TrimmedSum(s, t) ==
    IF t = 0 THEN SumSeq(s)
    ELSE LET a == DropOne(s, MinOf(s))
         IN  TrimmedSum(DropOne(a, MaxOf(a)), t - 1)

\* C14: for len(times) > 2*trimCount, trimmedMean returns the sum of the
\* samples left after removing the trimCount smallest and the trimCount
\* largest, divided by len(times) - 2*trimCount; on 1, 2, ..., 10 with
\* trimCount 1 it returns 44/8 = 5.5.
C14_TrimmedMeanValue ==
    (callPc = "return") =>
       /\ ret = Float(FDiv(TrimmedSum(samples, trimCount),
                           Len(samples) - 2 * trimCount))
       /\ (samples = OneToTen /\ trimCount = 1) =>
             /\ times = OneToTen
             /\ ret = Float(FDiv(44 * One, 8))
             /\ 2 * ret.v = 11 * One

\* the call on 1, 2, ..., 10 with trimCount 1 has returned
C14_Witness ==
    /\ callPc = "return"
    /\ samples = OneToTen
    /\ trimCount = 1

\* C15: a trainer called with iterations <= 0 or learningRate <= 0 rejects
\* the configuration before any computation: it computes no gradient,
\* applies no update and does not return a weight vector.
C15_RejectsBadConfig ==
    (iterations <= 0 \/ learningRate <= 0) =>
       (mainPc # "done" /\ updates = 0 /\ tasks = <<>>)

\* ---------------------------------------------------------------------
\* calculateAccuracy(X, y, weights)

\* the weight components tried
WeightValues == {0 - One, 0, One}

InitAccuracy ==
    /\ trainer = "seqMini"
    /\ \E n \in 0..MaxN :
          /\ X = [j \in 1..n |-> Row(j)]
          /\ y \in [1..n -> {0, 1}]
    /\ weights \in [1..Len(Row(1)) -> WeightValues]
    /\ learningRate = 0
    /\ iterations = 0
    /\ batchSize = 0
    /\ weightsNaN = {}
    /\ gradients = <<>>
    /\ iter = 0
    /\ i = 0
    /\ nbatches = 0
    /\ mainPc = "idle"
    /\ wg = 0
    /\ mutex = 0
    /\ tasks = <<>>
    /\ updates = 0
    /\ callPc = "loop"
    /\ times = <<>>
    /\ samples = <<>>
    /\ trimCount = 0
    /\ correct = 0
    /\ ret = Float(0)
    /\ rep = 0
    /\ timesSeq = <<>>
    /\ timesConc = <<>>
    /\ progress = 0
    /\ elapsed = <<>>

\* a threshold test that puts a prediction of exactly 0.5 below
AtLeastHalfStrict(x, w) == Dot(x, w, Len(x)) > 0

\* pred >= 0.5 for pred := predict(x, w): 1/(1+exp(-z)) is at least 0.5
\* exactly when z >= 0 (the rounded table of sigmoid is too coarse at 0.5)
AtLeastHalf(x, w) == Dot(x, w, Len(x)) >= 0

\* (pred >= 0.5 && y[i] == 1.0) || (pred < 0.5 && y[i] == 0.0)
IsCorrect(j) ==
    \/ (AtLeastHalf(X[j + 1], weights) /\ y[j + 1] = 1)
    \/ (~AtLeastHalf(X[j + 1], weights) /\ y[j + 1] = 0)

\* one pass of the loop over the examples
AccuracyStep ==
    /\ callPc = "loop"
    /\ i < dataLen
    /\ correct' = IF IsCorrect(i) THEN correct + 1 ELSE correct
    /\ i' = i + 1
    /\ UNCHANGED <<params, weights, weightsNaN, gradients, iter, nbatches,
                   mainPc, wg, mutex, tasks, updates, callPc, times, samples,
                   trimCount, ret, rep, timesSeq, timesConc, progress,
                   elapsed>>

\* return float64(correct) / float64(len(X)) * 100, 0/0 being NaN; the
\* quotient and the product are exact up to the resolution of the result
AccuracyReturn ==
    /\ callPc = "loop"
    /\ i >= dataLen
    /\ ret' = IF dataLen = 0 THEN NaN
              ELSE Float(FDiv(correct * 100 * One, dataLen))
    /\ callPc' = "return"
    /\ UNCHANGED <<params, weights, weightsNaN, gradients, iter, i, nbatches,
                   mainPc, wg, mutex, tasks, updates, times, samples,
                   trimCount, correct, rep, timesSeq, timesConc, progress,
                   elapsed>>

NextAccuracy == AccuracyStep \/ AccuracyReturn

SpecAccuracy == InitAccuracy /\ [][NextAccuracy]_vars

\* C16: calculateAccuracy on an empty dataset does not return a number as
\* the accuracy: the call is rejected or reports the accuracy as undefined.
C16_EmptyRejected ==
    (dataLen = 0) => (callPc # "return")

\* the class (0 or 1) the weights assign to example j (1-based)
Class(j) == IF Dot(X[j], weights, Len(X[j])) >= 0 THEN 1 ELSE 0

\* the examples whose class is their label
Matching == {j \in 1..dataLen : Class(j) = y[j]}

\* C17: on a non-empty dataset with labels in {0, 1} calculateAccuracy
\* returns 100 * (number of examples whose thresholded prediction is their
\* label) / N, a value in [0, 100] that is 100 when all examples match and
\* 0 when none does.
C17_AccuracyValue ==
    (callPc = "return" /\ dataLen > 0) =>
       /\ correct = Cardinality(Matching)
       /\ ret = Float(FDiv(100 * One * Cardinality(Matching), dataLen))
       /\ 0 <= ret.v /\ ret.v <= 100 * One
       /\ (Matching = 1..dataLen) => ret = Float(100 * One)
       /\ (Matching = {}) => ret = Float(0)

\* calculateAccuracy has returned for a dataset in which an example with a
\* prediction of exactly 0.5 and label 1 matches and another example does not
C17_Witness ==
    /\ callPc = "return"
    /\ dataLen >= 2
    /\ Matching # {}
    /\ Matching # 1..dataLen
    /\ \E j \in Matching : Dot(X[j], weights, Len(X[j])) = 0

\* C18: no step of any trainer writes X or y, and every invocation that
\* follows a finished one starts from a fresh all-zero weight vector and
\* fresh loop state, i.e. from the state a first invocation starts from, so
\* what it returns does not depend on the invocations before it.
C18_FreshWeightsReadOnlyData ==
    [][/\ X' = X
       /\ y' = y
       /\ (mainPc = "done" /\ mainPc' # "done") =>
             /\ weights' = Zeros
             /\ weightsNaN' = {}
             /\ mainPc' = "iter"
             /\ iter' = 0
             /\ tasks' = <<>>
             /\ wg' = 0
             /\ mutex' = 0]_vars

\* an invocation of a parallel trainer has finished with weights other
\* than zero, and a further invocation on the same X and y can start
C18_Witness ==
    /\ mainPc = "done"
    /\ trainer \in Parallel
    /\ weights # Zeros
    /\ updates >= 2
    /\ ENABLED Invoke

\* the weights the minibatch sequential trainer had when the epoch of the
\* recorded batches began
EpochStartWeights ==
    SeqMiniWeights(IF mainPc = "batch" \/ tasks = <<>> THEN iter ELSE iter - 1)

\* C20: in the minibatch sequential trainer the batches of an epoch are
\* processed in ascending index order, batch k's gradient is computed on the
\* weights that include the updates of batches 0..k-1 of the epoch, the
\* weights after k batches are those k updates applied in order, and a run
\* that returns has applied exactly iterations * ceil(N/B) updates.
C20_BatchesInOrder ==
    (trainer = "seqMini" /\ batchSize >= 1) =>
       /\ \A t \in TaskIds :
             /\ tasks[t].batchIndex = t - 1
             /\ tasks[t].start = (t - 1) * batchSize
             /\ tasks[t].partialGradients =
                   BatchGradient(SeqMiniRun(EpochStartWeights, 0, tasks[t].start),
                                 tasks[t].start, tasks[t].end)
       /\ (mainPc = "batch") =>
             /\ i = Len(tasks) * batchSize
             /\ weights = SeqMiniRun(EpochStartWeights, 0, i)
             /\ updates = iter * CeilDiv(dataLen, batchSize) + Len(tasks)
       /\ (mainPc \in {"iter", "done"}) =>
             /\ weights = SeqMiniWeights(iter)
             /\ updates = iter * CeilDiv(dataLen, batchSize)
       /\ (mainPc = "done") => iter = iterations

\* the minibatch sequential trainer has returned after two epochs of two
\* batches each, the second batch's gradient differing from the gradient the
\* epoch's starting weights would give
C20_Witness ==
    /\ trainer = "seqMini"
    /\ mainPc = "done"
    /\ iterations = 2
    /\ Len(tasks) = 2
    /\ updates = 4
    /\ tasks[2].partialGradients #
          BatchGradient(EpochStartWeights, tasks[2].start, tasks[2].end)

\* ---------------------------------------------------------------------
\* the benchmark branch of main (case "4")

\* const total = 1000
total == 1000

\* the trimCount of trimmedMean(timesSeq, 50), trimmedMean(timesConc, 50)
BenchTrim == 50

\* the patterns of durations the clock measures: the m-th measurement of a
\* run is the pattern's element 1 + (m mod length)
ElapsedPatterns == [1..2 -> SampleValues]

\* time.Since(start).Seconds() of measurement m (counted from 0)
Elapsed(m) == elapsed[1 + (m % Len(elapsed))]

InitBenchmark ==
    /\ TrainerIdle
    /\ callPc = "benchSeq"
    /\ elapsed \in ElapsedPatterns
    /\ times = <<>>
    /\ samples = <<>>
    /\ trimCount = 0
    /\ correct = 0
    /\ ret = Float(0)
    /\ rep = 0
    /\ timesSeq = <<>>
    /\ timesConc = <<>>
    /\ progress = 0

\* a loop test that lets one more repetition through
LoopOverLate(r) == r > total

\* the negation of the loop condition i < total
LoopOver(r) == r >= total

\* startSeq := time.Now(); _ = trainSequential(...);
\* timesSeq = append(timesSeq, time.Since(startSeq).Seconds())
BenchSeq ==
    /\ callPc = "benchSeq"
    /\ timesSeq' = Append(timesSeq, Elapsed(2 * rep))
    /\ callPc' = "benchConc"
    /\ UNCHANGED <<trainerVars, times, samples, trimCount, correct, ret, rep,
                   timesConc, progress, elapsed>>

\* startConc := time.Now(); _ = trainConcurrent(...);
\* timesConc = append(timesConc, time.Since(startConc).Seconds())
BenchConc ==
    /\ callPc = "benchConc"
    /\ timesConc' = Append(timesConc, Elapsed(2 * rep + 1))
    /\ callPc' = "progress"
    /\ UNCHANGED <<trainerVars, times, samples, trimCount, correct, ret, rep,
                   timesSeq, progress, elapsed>>

\* if (i+1)%10 == 0 || i == total-1 { print progress }; i++; i < total
BenchProgress ==
    /\ callPc = "progress"
    /\ progress' = IF (rep + 1) % 10 = 0 \/ rep = total - 1
                   THEN rep + 1 ELSE progress
    /\ rep' = rep + 1
    /\ callPc' = IF LoopOver(rep') THEN "meanSeq" ELSE "benchSeq"
    /\ UNCHANGED <<trainerVars, times, samples, trimCount, correct, ret,
                   timesSeq, timesConc, elapsed>>

\* the float64 trimmedMean returns for the sorted slice s
MeanOfTrimmed(s, t) ==
    LET trimmed == SubSeq(s, t + 1, Len(s) - t)
    IN  IF Len(trimmed) = 0 THEN NaN
        ELSE Float(FDiv(SumSeq(trimmed), Len(trimmed)))

\* meanSeq := trimmedMean(timesSeq, 50): panics or sorts timesSeq in place
BenchMeanSeq ==
    /\ callPc = "meanSeq"
    /\ IF TooFew(Len(timesSeq), BenchTrim)
       THEN /\ callPc' = "panic"
            /\ UNCHANGED <<timesSeq, ret>>
       ELSE /\ timesSeq' = SortFloat64s(timesSeq)
            /\ ret' = MeanOfTrimmed(timesSeq', BenchTrim)
            /\ callPc' = "meanConc"
    /\ UNCHANGED <<trainerVars, times, samples, trimCount, correct, rep,
                   timesConc, progress, elapsed>>

\* meanConc := trimmedMean(timesConc, 50)
BenchMeanConc ==
    /\ callPc = "meanConc"
    /\ IF TooFew(Len(timesConc), BenchTrim)
       THEN /\ callPc' = "panic"
            /\ UNCHANGED <<timesConc, ret>>
       ELSE /\ timesConc' = SortFloat64s(timesConc)
            /\ ret' = MeanOfTrimmed(timesConc', BenchTrim)
            /\ callPc' = "end"
    /\ UNCHANGED <<trainerVars, times, samples, trimCount, correct, rep,
                   timesSeq, progress, elapsed>>

NextBenchmark ==
    \/ BenchSeq
    \/ BenchConc
    \/ BenchProgress
    \/ BenchMeanSeq
    \/ BenchMeanConc

SpecBenchmark == InitBenchmark /\ [][NextBenchmark]_vars

\* C19: the benchmark loop records one timing sample per trainer per
\* repetition, so that after the loop timesSeq and timesConc hold exactly
\* total = 1000 samples each; the progress report changes neither sequence;
\* and as 1000 > 2*50 neither call of trimmedMean fails.
C19_OneSamplePerRepetition ==
    /\ [](/\ rep <= total
          /\ callPc # "panic"
          /\ Len(timesSeq) = rep + (IF callPc \in {"benchConc", "progress"}
                                    THEN 1 ELSE 0)
          /\ Len(timesConc) = rep + (IF callPc = "progress" THEN 1 ELSE 0)
          /\ (callPc \in {"benchSeq", "benchConc", "progress"}) =>
                /\ \A r \in 1..Len(timesSeq) : timesSeq[r] = Elapsed(2 * (r - 1))
                /\ \A r \in 1..Len(timesConc) :
                      timesConc[r] = Elapsed(2 * (r - 1) + 1)
          /\ (callPc \in {"meanSeq", "meanConc", "end"}) =>
                /\ rep = total
                /\ Len(timesSeq) = total
                /\ Len(timesConc) = total
                /\ total > 2 * BenchTrim
                /\ progress = total)
    /\ [][(callPc = "progress") =>
             (timesSeq' = timesSeq /\ timesConc' = timesConc)]_vars

\* the benchmark has run its 1000 repetitions, reported the last one and
\* computed both trimmed means
C19_Witness ==
    /\ callPc = "end"
    /\ rep = total
    /\ Len(timesSeq) = total
    /\ Len(timesConc) = total
    /\ progress = total
    /\ ~ret.nan

\* the example indices task t has added to its partialGradients so far
Processed(t) ==
    IF tasks[t].pc = "compute" THEN {}
    ELSE {e \in 0..(dataLen - 1) : tasks[t].start <= e /\ e < tasks[t].j}

\* the example indices of the range task t was launched with
Range(t) == {e \in 0..(dataLen - 1) : tasks[t].start <= e /\ e < tasks[t].end}

\* task t has left the loop over its examples
PastExamples(t) == tasks[t].pc \notin {"compute", "read"}

\* C21: in both parallel trainers (batchSize >= 1) an epoch launches one
\* task per batch, a task adds to its partial gradient the examples of its
\* own range [start, end) only, one at a time and each once, no example is
\* processed by two tasks, and when all tasks of the epoch have finished
\* every example index in [0, N) has been processed by exactly one task.
C21_EachExampleOnce ==
    /\ []((trainer \in Parallel /\ batchSize >= 1) =>
            /\ \A t \in TaskIds :
                  /\ tasks[t].batchIndex = t - 1
                  /\ Processed(t) \subseteq Range(t)
                  /\ PastExamples(t) => Processed(t) = Range(t)
                  /\ (trainer = "accumulate" /\ PastExamples(t)
                        /\ mainPc \in {"launch", "wait", "update"}) =>
                        tasks[t].partialGradients =
                           BatchGradient(weights, tasks[t].start, tasks[t].end)
            /\ \A t, u \in TaskIds :
                  t # u => Processed(t) \cap Processed(u) = {}
            /\ (EpochLaunched /\ AllTasksDone) =>
                  /\ Len(tasks) = CeilDiv(dataLen, batchSize)
                  /\ \A e \in 0..(dataLen - 1) :
                        Cardinality({t \in TaskIds : e \in Processed(t)}) = 1)
    /\ [][(trainer = "applyPerBatch" /\ batchSize >= 1) =>
             \A t \in TaskIds :
                (/\ t <= Len(tasks')
                 /\ tasks'[t].partialGradients # tasks[t].partialGradients) =>
                    /\ tasks'[t].start = tasks[t].start
                    /\ tasks'[t].end = tasks[t].end
                    /\ tasks[t].start <= tasks[t].j
                    /\ tasks[t].j < tasks[t].end
                    /\ tasks'[t].j = tasks[t].j + 1
                    /\ tasks'[t].partialGradients =
                          [f \in 1..features |->
                              tasks[t].partialGradients[f]
                                 + (sigmoid(tasks[t].z
                                       + X[tasks[t].j + 1][features]
                                           * weights[features])
                                    - y[tasks[t].j + 1] * One)
                                   * X[tasks[t].j + 1][f]]]_vars

\* an epoch of a parallel trainer over three examples in two batches has
\* ended with both tasks finished
C21_Witness ==
    /\ trainer \in Parallel
    /\ dataLen = 3
    /\ batchSize = 2
    /\ EpochLaunched
    /\ AllTasksDone
    /\ Len(tasks) = 2
    /\ Processed(1) = {0, 1}
    /\ Processed(2) = {2}

\* learningRate * partialGradients[k] / float64(end-start) of task t
Delta(t, k) ==
    FDiv(learningRate * tasks[t].partialGradients[k],
         tasks[t].end - tasks[t].start)

\* task t has subtracted its delta from weights[k]
Applied(t, k) ==
    \/ (tasks[t].pc = "update" /\ tasks[t].k >= k)
    \/ tasks[t].pc \in {"unlock", "wgdone", "done"}

\* the sum of the deltas the first n tasks have applied to weights[k]
RECURSIVE AppliedSum(_, _)
AppliedSum(n, k) ==
    IF n = 0 THEN 0
    ELSE AppliedSum(n - 1, k) + (IF Applied(n, k) THEN Delta(n, k) ELSE 0)

\* the number of tasks of the epoch that have finished their update loop
RECURSIVE UpdatedTasks(_)
UpdatedTasks(n) ==
    IF n = 0 THEN 0
    ELSE UpdatedTasks(n - 1)
            + (IF tasks[n].pc \in {"unlock", "wgdone", "done"} THEN 1 ELSE 0)

\* C22: in the apply-per-batch trainer (batchSize >= 1) no update is lost:
\* every change of weights[k] is the subtraction of the delta of the task
\* that holds the mutex, made once per task and component; in the first
\* epoch, whose starting weights are zero, weights[k] is at every moment
\* minus the sum of the deltas applied so far, hence of all the epoch's
\* tasks once the barrier is passed; and a run that returns has made
\* exactly iterations * ceil(N/B) locked updates.
C22_NoLostUpdate ==
    /\ []((trainer = "applyPerBatch" /\ batchSize >= 1) =>
            /\ weightsNaN = {}
            /\ (mainPc \in {"launch", "wait"} \/ tasks = <<>>) =>
                  updates = iter * CeilDiv(dataLen, batchSize)
                               + UpdatedTasks(Len(tasks))
            /\ (mainPc \in {"iter", "done"}) =>
                  /\ updates = iter * CeilDiv(dataLen, batchSize)
                  /\ \A t \in TaskIds : \A k \in 1..features : Applied(t, k)
                  /\ iter > 0 => Len(tasks) = CeilDiv(dataLen, batchSize)
            /\ (mainPc = "done") => iter = iterations
            /\ (iter = 0 \/ (iter = 1 /\ mainPc \in {"iter", "done"})) =>
                  \A k \in 1..features :
                     weights[k] = 0 - AppliedSum(Len(tasks), k))
    /\ [][(/\ trainer = "applyPerBatch"
           /\ batchSize >= 1
           /\ mainPc # "done"
           /\ weights' # weights) =>
             \E t \in TaskIds :
                /\ mutex = t
                /\ tasks[t].pc = "update"
                /\ tasks'[t].k = tasks[t].k + 1
                /\ ~Applied(t, tasks'[t].k)
                /\ weights' = [weights EXCEPT ![tasks'[t].k] =
                                  @ - Delta(t, tasks'[t].k)]]_vars

\* the first epoch of the apply-per-batch trainer has passed its barrier
\* after two tasks applied nonzero deltas, the second of them computed
\* before the first one's update
C22_Witness ==
    /\ trainer = "applyPerBatch"
    /\ batchSize >= 1
    /\ iter = 1
    /\ mainPc = "iter"
    /\ Len(tasks) = 2
    /\ \A t \in TaskIds : \E k \in 1..features : Delta(t, k) # 0
    /\ weights # SeqMiniWeights(1)

\* ---------------------------------------------------------------------
\* the apply-per-batch trainer under the schedule that runs the batch tasks
\* one after the other in launch order

\* a schedule that lets any task run
AnyTurn(t) == TRUE

\* every task launched before task t has finished its locked update
Turn(t) == \A u \in 1..(t - 1) : tasks[u].pc \in {"unlock", "wgdone", "done"}

InitSerial ==
    /\ Init
    /\ trainer = "applyPerBatch"
    /\ batchSize >= 1

SerialRead(t) == Turn(t) /\ ApbRead(t)

SerialLock(t) == Turn(t) /\ ApbLock(t)

NextSerial ==
    \/ ApbEpochStart
    \/ ApbLaunch
    \/ Wait
    \/ Return
    \/ \E t \in TaskIds : SerialRead(t)
    \/ \E t \in TaskIds : SerialLock(t)
    \/ \E t \in TaskIds : ApbUpdate(t)
    \/ \E t \in TaskIds : ApbUnlock(t)
    \/ \E t \in TaskIds : TaskDone(t)

SpecSerial == InitSerial /\ [][NextSerial]_vars

\* the weights trainSequential has at the start of the epoch whose tasks
\* are recorded: iter counts the epochs whose barrier has been passed
SerialEpochStart ==
    SeqMiniWeights(IF mainPc \in {"launch", "wait"} THEN iter ELSE iter - 1)

\* C23: the runs of the apply-per-batch trainer in which each task reads
\* and does its locked update before the next task reads any weight are
\* runs of the trainer (every step is a step of Next), and they give the
\* weights of the sequential minibatch trainer: each task's gradient is the
\* sequential one of its batch, the weights after an epoch are those of
\* trainSequential after as many epochs, and so is the vector returned.
C23_SerialIsSequential ==
    /\ Spec
    /\ [](/\ \A t \in TaskIds :
                tasks[t].pc \in {"lock", "update", "unlock", "wgdone", "done"} =>
                   tasks[t].partialGradients =
                      BatchGradient(SeqMiniRun(SerialEpochStart, 0, tasks[t].start),
                                    tasks[t].start, tasks[t].end)
          /\ (mainPc \in {"iter", "done"}) => weights = SeqMiniWeights(iter)
          /\ (mainPc = "done") =>
                (iter = iterations /\ weights = SeqMiniWeights(iterations)))

\* the serial schedule has returned after two epochs of two batches, the
\* second task's gradient differing from the one the epoch's starting
\* weights would give
C23_Witness ==
    /\ trainer = "applyPerBatch"
    /\ mainPc = "done"
    /\ iterations = 2
    /\ Len(tasks) = 2
    /\ AllTasksDone
    /\ weights = SeqMiniWeights(2)
    /\ tasks[2].partialGradients #
          BatchGradient(SeqMiniWeights(1), tasks[2].start, tasks[2].end)
====
